---- MODULE Spec2Model ----
(***************************************************************************)
(* Model of package pcre (src/pcre.go): the Regexp handle, its search loop *)
(* Regexp.match, callout registration Regexp.SetCallout and Regexp.Close.  *)
(*                                                                         *)
(* A subject is represented by its match table: what the compiled pattern  *)
(* does on that subject.  For a subject of length n the table maps every   *)
(* start position p in 0..n to "the pattern matches at p and ends at e"    *)
(* (p <= e <= n), "the pattern does not match at p", or "matching at p     *)
(* fails with an execution error".  One primitive attempt at a start       *)
(* offset scans the positions from that offset upwards.                    *)
(***************************************************************************)
EXTENDS Integers, Sequences, FiniteSets, TLC

\* ---------------------------------------------------------------- bounds
\* longest subject of the sequential search specification
MaxLen == 3
\* longest subject of the concurrent specifications
ConcLen == 2
\* operations each goroutine starts in the concurrent specifications
MaxOps == 1
\* calls of match in the sequential search specification
MatchCalls == 2

\* the goroutines that share the handle, and the finalizer goroutine
Procs == {"g1", "g2"}
Fin == "fin"

\* lib.DPCRE2_ERROR_NOMATCH
ERROR_NOMATCH == -1
\* any other negative return code of pcre2_match
ERROR_OTHER == ERROR_NOMATCH - 1

VARIABLES
  pc,          \* position of every goroutine in the operation it runs
  ops,         \* operations a goroutine may still start
  subj,        \* b, the subject of a goroutine's search (its match table)
  multi,       \* the multi argument of match
  offset,      \* local offset of match
  out,         \* local out of match
  md,          \* the match data block of the call: return code and ovector
  retv,        \* the value a return statement of match has produced
  ret,         \* per goroutine and multi flag: what match returned on subj
  attempts,    \* start offsets of the primitive attempts of the call
  mtx,         \* r.mtx: its holder, or "free"
  calloutMtx,  \* r.calloutMtx: its holder, or "free"
  scan,        \* transient scan state of the execution context (r.tls, r.mctx)
  re,          \* r.re: "code" or "nil"
  freed,       \* how often each native resource has been released
  tlsClosed,   \* how often r.tls.Close has run
  callout,     \* r.callout
  mctxCallout, \* callout registered in the match context
  misuse,      \* released or nil resources that were handed to the primitive
  collected,   \* the garbage collector has found the handle unreachable
  closeOverlap, \* a Close was called while another Close was running
  inp,         \* arguments and handle of a call of the exported functions
  api,         \* what that call did and returned
  fsys,        \* the file system and the arguments of a call of Glob
  walk         \* Glob's position in its traversal, its matches and its result

\* the variables of the exported functions above match
apiVars == <<inp, api, fsys, walk>>

vars == <<pc, ops, subj, multi, offset, out, md, retv, ret, attempts, mtx,
          calloutMtx, scan, re, freed, tlsClosed, callout, mctxCallout,
          misuse, collected, closeOverlap, apiVars>>

\* ---------------------------------------------------------- match tables
NoneAt == [k |-> "none", e |-> 0]
ErrAt == [k |-> "err", e |-> 0]
MatchAt(x) == [k |-> "m", e |-> x]

Entries(n, withErr) ==
  {NoneAt} \cup {MatchAt(x) : x \in 0..n} \cup (IF withErr THEN {ErrAt} ELSE {})

\* every behaviour a pattern can have on a subject of length n
TablesOfLen(n, withErr) ==
  {t \in [0..n -> Entries(n, withErr)] :
     \A p \in 0..n : t[p].k = "m" => t[p].e >= p}

Tables(maxLen, withErr) == UNION {TablesOfLen(n, withErr) : n \in 0..maxLen}

\* len(b)
SLen(t) == Cardinality(DOMAIN t) - 1

NoMd == [ret |-> 0, ovec |-> <<>>]
NoScan == [tbl |-> <<>>, off |-> 0]
None == [out |-> <<>>, err |-> 0, set |-> FALSE]
Returned(o, e) == [out |-> o, err |-> e, set |-> TRUE]

\* ------------------------------------------------------------- primitive
\* pcre2_match: the leftmost match at or after the start offset
RECURSIVE ScanFrom(_, _)
ScanFrom(t, p) ==
  IF p > SLen(t) THEN [ret |-> ERROR_NOMATCH, ovec |-> <<>>]
  ELSE IF t[p].k = "err" THEN [ret |-> ERROR_OTHER, ovec |-> <<>>]
  ELSE IF t[p].k = "m" THEN [ret |-> 1, ovec |-> <<p, t[p].e>>]
  ELSE ScanFrom(t, p + 1)

PrimResult(t, off) ==
  IF off > SLen(t) THEN [ret |-> ERROR_OTHER, ovec |-> <<>>] ELSE ScanFrom(t, off)

\* ------------------------------------------------------------ match loop
\* faulty variant: the loop also runs with the cursor at the end of the subject
LoopCond_Inclusive(off, n) == off <= n

\* the loop condition of match
LoopCond(off, n) == off < n

\* faulty variant: the cursor is set to the start of the accepted match
NextOffsetAccepted_Start(matches) == matches[1]

\* offset after an accepted non-empty match
NextOffsetAccepted(matches) == matches[2]

\* faulty variant: the cursor stays at the end of the empty match
NextOffsetEmpty_Stay(slice) == slice[2]

\* offset after an empty match, emitted or ignored
NextOffsetEmpty(slice) == slice[2] + 1

\* faulty variant: an empty match glued to the previous match is emitted too
EmitEmpty_Adjacent(slice, o) == slice[1] = slice[2] /\ Len(o) > 0

\* faulty variant: an empty match is emitted when no match was accepted before it
EmitEmpty_First(slice, o) ==
  slice[1] = slice[2] /\ (Len(o) = 0 \/ slice[1] # o[Len(o)][2])

\* faulty variant: an empty match is never emitted
EmitEmpty_Never(slice, o) == FALSE

\* an empty match is emitted when a match was accepted before it and it does
\* not start where that match ended
EmitEmpty(slice, o) ==
  slice[1] = slice[2] /\ Len(o) > 0 /\ slice[1] # o[Len(o)][2]

\* the body of the loop after pcre2_match has returned: the new out, the new
\* offset, and how the iteration leaves ("continue", "break", "error",
\* or "fall" through to the test of multi)
\* faulty variant: the records accepted before the error are returned with it
ErrorReturn_Partial(o, code) == Returned(o, code)

\* return nil, codeToError(r.tls, ret): the records in out are dropped
ErrorReturn(o, code) == Returned(<<>>, code)

AfterAttempt(m, o, off) ==
  IF m.ret < 0
    THEN IF m.ret = ERROR_NOMATCH
           THEN [out |-> o, offset |-> off, next |-> "break"]
           ELSE [out |-> o, offset |-> off, next |-> "error"]
    ELSE IF EmitEmpty(m.ovec, o)
           THEN [out |-> Append(o, m.ovec), offset |-> NextOffsetEmpty(m.ovec),
                 next |-> "continue"]
         ELSE IF m.ovec[1] = m.ovec[2]
           THEN [out |-> o, offset |-> NextOffsetEmpty(m.ovec), next |-> "continue"]
         ELSE [out |-> Append(o, m.ovec), offset |-> NextOffsetAccepted(m.ovec),
               next |-> "fall"]

\* faulty variant: the loop never stops after the first accepted match
StopAfterFirst_Never(m) == FALSE

\* if !multi { break }
StopAfterFirst(m) == ~m

\* faulty variant: match does not wait for r.mtx
LockGuard_None(g) == TRUE

\* r.mtx.Lock() returns
LockGuard(g) == mtx = "free"

\* a goroutine may start an operation on the handle
CanStart(g) == pc[g] = "idle" /\ ops[g] > 0 /\ ~collected

\* match is called with subject t; an empty subject returns nil at once
Call(g, t, m) ==
  /\ CanStart(g)
  /\ ops' = [ops EXCEPT ![g] = @ - 1]
  /\ subj' = [subj EXCEPT ![g] = t]
  /\ multi' = [multi EXCEPT ![g] = m]
  /\ offset' = [offset EXCEPT ![g] = 0]
  /\ out' = [out EXCEPT ![g] = <<>>]
  /\ md' = [md EXCEPT ![g] = NoMd]
  /\ attempts' = [attempts EXCEPT ![g] = <<>>]
  /\ IF SLen(t) = 0
       THEN /\ retv' = [retv EXCEPT ![g] = None]
            /\ ret' = [ret EXCEPT ![g] =
                         [b \in BOOLEAN |->
                            IF b = m THEN Returned(<<>>, 0)
                            ELSE IF t = subj[g] THEN ret[g][b] ELSE None]]
            /\ pc' = pc
       ELSE /\ retv' = [retv EXCEPT ![g] = None]
            /\ ret' = [ret EXCEPT ![g] =
                         IF t = subj[g] THEN @ ELSE [b \in BOOLEAN |-> None]]
            /\ pc' = [pc EXCEPT ![g] = "lock"]
  /\ UNCHANGED <<mtx, calloutMtx, scan, re, freed, tlsClosed, callout,
                 mctxCallout, misuse, collected, closeOverlap, apiVars>>

\* r.mtx.Lock()
Lock(g) ==
  /\ pc[g] = "lock"
  /\ LockGuard(g)
  /\ mtx' = g
  /\ pc' = [pc EXCEPT ![g] = "mdcreate"]
  /\ UNCHANGED <<ops, subj, multi, offset, out, md, retv, ret, attempts,
                 calloutMtx, scan, re, freed, tlsClosed, callout, mctxCallout,
                 misuse, collected, closeOverlap, apiVars>>

\* pcre2_match_data_create_from_pattern(r.tls, r.re, 0) reads the code block:
\* a nil r.re faults, and a released block may fault or still be readable;
\* with a live block the allocation may still fail (md == 0), and match
\* panics with "error creating match data"
MdCreateFaults ==
  IF re = "nil" THEN {TRUE}
  ELSE {TRUE, FALSE}

\* md := pcre2_match_data_create_from_pattern(...); on a fault the call
\* panics and the deferred Unlock runs
MdCreate(g) ==
  /\ pc[g] = "mdcreate"
  /\ misuse' = misuse \cup (IF re = "nil" THEN {"nil_code"}
                            ELSE IF freed.code > 0 THEN {"uaf_code"}
                            ELSE {})
  /\ \E fault \in MdCreateFaults :
       IF fault
         THEN /\ mtx' = "free"
              /\ pc' = [pc EXCEPT ![g] = "idle"]
         ELSE /\ mtx' = mtx
              /\ pc' = [pc EXCEPT ![g] = "loop"]
  /\ md' = [md EXCEPT ![g] = NoMd]
  /\ UNCHANGED <<ops, subj, multi, offset, out, retv, ret, attempts,
                 calloutMtx, scan, re, freed, tlsClosed, callout, mctxCallout,
                 collected, closeOverlap, apiVars>>

\* for offset < cSubjectLen; after the loop: return out, nil
LoopTest(g) ==
  /\ pc[g] = "loop"
  /\ IF LoopCond(offset[g], SLen(subj[g]))
       THEN /\ pc' = [pc EXCEPT ![g] = "exec"]
            /\ retv' = retv
       ELSE /\ pc' = [pc EXCEPT ![g] = "defer"]
            /\ retv' = [retv EXCEPT ![g] = Returned(out[g], 0)]
  /\ UNCHANGED <<ops, subj, multi, offset, out, md, ret, attempts, mtx,
                 calloutMtx, scan, re, freed, tlsClosed, callout, mctxCallout,
                 misuse, collected, closeOverlap, apiVars>>

\* pcre2_match is entered: it sets up its scan state in the execution context
ExecEnter(g) ==
  /\ pc[g] = "exec"
  /\ scan' = [tbl |-> subj[g], off |-> offset[g]]
  /\ attempts' = [attempts EXCEPT ![g] = Append(@, offset[g])]
  /\ misuse' = misuse
       \cup (IF re = "code" /\ freed.code > 0 THEN {"uaf_code"} ELSE {})
       \cup (IF freed.mctx > 0 THEN {"uaf_mctx"} ELSE {})
  /\ pc' = [pc EXCEPT ![g] = "execret"]
  /\ UNCHANGED <<ops, subj, multi, offset, out, md, retv, ret, mtx,
                 calloutMtx, re, freed, tlsClosed, callout, mctxCallout,
                 collected, closeOverlap, apiVars>>

\* what pcre2_match can write to the match data block
ExecOutcomes ==
  IF re = "nil" THEN {[ret |-> ERROR_OTHER, ovec |-> <<>>]}
  ELSE IF freed.code > 0 \/ freed.mctx > 0
    THEN {PrimResult(scan.tbl, scan.off),
          [ret |-> ERROR_NOMATCH, ovec |-> <<>>],
          [ret |-> ERROR_OTHER, ovec |-> <<>>]}
  ELSE {PrimResult(scan.tbl, scan.off)}

\* pcre2_match returns: the result of the scan is in the match data block
ExecFinish(g) ==
  /\ pc[g] = "execret"
  /\ \E r \in ExecOutcomes : md' = [md EXCEPT ![g] = r]
  /\ scan' = NoScan
  /\ pc' = [pc EXCEPT ![g] = "copy"]
  /\ UNCHANGED <<ops, subj, multi, offset, out, retv, ret, attempts, mtx,
                 calloutMtx, re, freed, tlsClosed, callout, mctxCallout,
                 misuse, collected, closeOverlap, apiVars>>

\* the return code is read, the ovector copied out and the match decided
Decide(g) ==
  /\ pc[g] = "copy"
  /\ LET a == AfterAttempt(md[g], out[g], offset[g])
     IN /\ out' = [out EXCEPT ![g] = a.out]
        /\ offset' = [offset EXCEPT ![g] = a.offset]
        /\ IF a.next = "error"
             THEN /\ retv' = [retv EXCEPT ![g] = ErrorReturn(a.out, md[g].ret)]
                  /\ pc' = [pc EXCEPT ![g] = "defer"]
           ELSE IF a.next = "break" \/ (a.next = "fall" /\ StopAfterFirst(multi[g]))
             THEN /\ retv' = [retv EXCEPT ![g] = Returned(a.out, 0)]
                  /\ pc' = [pc EXCEPT ![g] = "defer"]
           ELSE /\ retv' = retv
                /\ pc' = [pc EXCEPT ![g] = "loop"]
  /\ UNCHANGED <<ops, subj, multi, md, ret, attempts, mtx, calloutMtx, scan,
                 re, freed, tlsClosed, callout, mctxCallout, misuse, collected, closeOverlap, apiVars>>

\* the deferred calls: pcre2_match_data_free, r.mtx.Unlock(); match returns
\* its value and its locals are gone (attempts keeps the history of the call)
Defer(g) ==
  /\ pc[g] = "defer"
  /\ mtx' = "free"
  /\ md' = [md EXCEPT ![g] = NoMd]
  /\ ret' = [ret EXCEPT ![g][multi[g]] = retv[g]]
  /\ offset' = [offset EXCEPT ![g] = 0]
  /\ out' = [out EXCEPT ![g] = <<>>]
  /\ retv' = [retv EXCEPT ![g] = None]
  /\ pc' = [pc EXCEPT ![g] = "idle"]
  /\ UNCHANGED <<ops, subj, multi, attempts, calloutMtx, scan, re, freed,
                 tlsClosed, callout, mctxCallout, misuse, collected, closeOverlap, apiVars>>

MatchStep(g) ==
  \/ Lock(g)
  \/ MdCreate(g)
  \/ LoopTest(g)
  \/ ExecEnter(g)
  \/ ExecFinish(g)
  \/ Decide(g)
  \/ Defer(g)

\* ------------------------------------------------------------ SetCallout
\* r.calloutMtx.Lock(); r.callout = &cfn
SetCalloutLock(g) ==
  /\ CanStart(g)
  /\ calloutMtx = "free"
  /\ ops' = [ops EXCEPT ![g] = @ - 1]
  /\ calloutMtx' = g
  /\ callout' = g
  /\ pc' = [pc EXCEPT ![g] = "sc_write"]
  /\ UNCHANGED <<subj, multi, offset, out, md, retv, ret, attempts, mtx, scan,
                 re, freed, tlsClosed, mctxCallout, misuse, collected, closeOverlap, apiVars>>

\* pcre2_set_callout(r.tls, r.mctx, cfn, 0) writes the match context in place;
\* the deferred r.calloutMtx.Unlock()
SetCalloutWrite(g) ==
  /\ pc[g] = "sc_write"
  /\ mctxCallout' = g
  /\ misuse' = misuse \cup (IF freed.mctx > 0 THEN {"uaf_mctx"} ELSE {})
  /\ calloutMtx' = "free"
  /\ pc' = [pc EXCEPT ![g] = "idle"]
  /\ UNCHANGED <<ops, subj, multi, offset, out, md, retv, ret, attempts, mtx,
                 scan, re, freed, tlsClosed, callout, collected, closeOverlap, apiVars>>

\* ----------------------------------------------------------------- Close
\* the goroutines that are inside r.Close()
Closing == {c \in Procs \cup {Fin} : pc[c] \in {"cl_code", "cl_mctx", "cl_zero"}}

\* a goroutine calls r.Close()
CloseCall(g) ==
  /\ CanStart(g)
  /\ ops' = [ops EXCEPT ![g] = @ - 1]
  /\ pc' = [pc EXCEPT ![g] = "cl_code"]
  /\ closeOverlap' = (closeOverlap \/ Closing # {})
  /\ UNCHANGED <<subj, multi, offset, out, md, retv, ret, attempts, mtx,
                 calloutMtx, scan, re, freed, tlsClosed, callout, mctxCallout,
                 misuse, collected, apiVars>>

\* the handle has become unreachable: the finalizer set in CompileOpts calls
\* r.Close()
Finalize ==
  /\ ~collected
  /\ \A g \in Procs : pc[g] = "idle"
  /\ collected' = TRUE
  /\ pc' = [pc EXCEPT ![Fin] = "cl_code"]
  /\ UNCHANGED <<ops, subj, multi, offset, out, md, retv, ret, attempts, mtx,
                 calloutMtx, scan, re, freed, tlsClosed, callout, mctxCallout,
                 misuse, closeOverlap, apiVars>>

\* pcre2_code_free(r.tls, r.re): releases the code block unless r.re is nil
CloseFreeCode(c) ==
  /\ pc[c] = "cl_code"
  /\ freed' = [freed EXCEPT !.code = IF re = "code" THEN @ + 1 ELSE @]
  /\ misuse' = misuse \cup
       (IF re = "code" /\ \E g \in Procs : pc[g] = "execret"
          THEN {"uaf_code"} ELSE {})
  /\ pc' = [pc EXCEPT ![c] = "cl_mctx"]
  /\ UNCHANGED <<ops, subj, multi, offset, out, md, retv, ret, attempts, mtx,
                 calloutMtx, scan, re, tlsClosed, callout, mctxCallout,
                 collected, closeOverlap, apiVars>>

\* pcre2_match_context_free(r.tls, r.mctx): r.mctx is never cleared
CloseFreeMctx(c) ==
  /\ pc[c] = "cl_mctx"
  /\ freed' = [freed EXCEPT !.mctx = @ + 1]
  /\ misuse' = misuse \cup
       (IF \E g \in Procs : pc[g] = "execret" THEN {"uaf_mctx"} ELSE {})
  /\ pc' = [pc EXCEPT ![c] = "cl_zero"]
  /\ UNCHANGED <<ops, subj, multi, offset, out, md, retv, ret, attempts, mtx,
                 calloutMtx, scan, re, tlsClosed, callout, mctxCallout,
                 collected, closeOverlap, apiVars>>

\* r.re = 0; return nil; the deferred r.tls.Close()
CloseZero(c) ==
  /\ pc[c] = "cl_zero"
  /\ re' = "nil"
  /\ tlsClosed' = tlsClosed + 1
  /\ pc' = [pc EXCEPT ![c] = "idle"]
  /\ UNCHANGED <<ops, subj, multi, offset, out, md, retv, ret, attempts, mtx,
                 calloutMtx, scan, freed, callout, mctxCallout, misuse,
                 collected, closeOverlap, apiVars>>

CloseStep(c) ==
  \/ CloseFreeCode(c)
  \/ CloseFreeMctx(c)
  \/ CloseZero(c)

\* --------------------------------------------------------- specifications
\* no exported function above match has been called
NoCall == [op |-> "none"]

InitNoCall ==
  /\ inp = NoCall
  /\ api = NoCall
  /\ fsys = NoCall
  /\ walk = NoCall

InitRest ==
  /\ pc = [g \in Procs \cup {Fin} |-> "idle"]
  /\ multi = [g \in Procs |-> FALSE]
  /\ offset = [g \in Procs |-> 0]
  /\ out = [g \in Procs |-> <<>>]
  /\ md = [g \in Procs |-> NoMd]
  /\ retv = [g \in Procs |-> None]
  /\ ret = [g \in Procs |-> [b \in BOOLEAN |-> None]]
  /\ attempts = [g \in Procs |-> <<>>]
  /\ mtx = "free"
  /\ calloutMtx = "free"
  /\ scan = NoScan
  /\ re = "code"
  /\ freed = [code |-> 0, mctx |-> 0]
  /\ tlsClosed = 0
  /\ callout = "nil"
  /\ mctxCallout = "nil"
  /\ misuse = {}
  /\ collected = FALSE
  /\ closeOverlap = FALSE

\* one goroutine searches one subject, with multi set and with multi clear
InitMatch ==
  /\ \E t \in Tables(MaxLen, TRUE) : subj = [g \in Procs |-> t]
  /\ ops = [g \in Procs |-> MatchCalls]
  /\ InitRest
  /\ InitNoCall

NextMatch ==
  \/ \E m \in BOOLEAN : Call("g1", subj["g1"], m)
  \/ MatchStep("g1")

SpecMatch == InitMatch /\ [][NextMatch]_vars

\* the same, with a goroutine that is scheduled and a primitive that returns:
\* a step of the call that can be taken is taken
FairMatch == SpecMatch /\ WF_vars(MatchStep("g1"))

\* the subjects of the concurrent searches: strings of digits ("d") and other
\* bytes ("x"), searched with the pattern \d* (TestConcurrency)
Strings(n) == UNION {[1..k -> {"d", "x"}] : k \in 0..n}

\* where the longest run of digits that starts at position p ends
RECURSIVE DigitRunEnd(_, _)
DigitRunEnd(s, p) ==
  IF p < Len(s) /\ s[p + 1] = "d" THEN DigitRunEnd(s, p + 1) ELSE p

\* \d* matches at every position, the run of digits that starts there
DigitStarTable(s) == [p \in 0..Len(s) |-> MatchAt(DigitRunEnd(s, p))]

\* two goroutines search their own subjects through the same handle
ConcSubjects == {DigitStarTable(s) : s \in Strings(ConcLen)}

InitSearch ==
  /\ subj = [g \in Procs |-> [p \in 0..0 |-> NoneAt]]
  /\ ops = [g \in Procs |-> MaxOps]
  /\ InitRest
  /\ InitNoCall

NextSearch ==
  \E g \in Procs :
    \/ \E t \in ConcSubjects, m \in BOOLEAN : Call(g, t, m)
    \/ MatchStep(g)

SpecSearch == InitSearch /\ [][NextSearch]_vars

\* the goroutines search, register callouts and close the handle; the
\* finalizer closes it once more when it is unreachable
Init == InitSearch

Next ==
  \/ \E g \in Procs :
       \/ \E t \in ConcSubjects, m \in BOOLEAN : Call(g, t, m)
       \/ MatchStep(g)
       \/ SetCalloutLock(g)
       \/ SetCalloutWrite(g)
       \/ CloseCall(g)
  \/ \E c \in Procs \cup {Fin} : CloseStep(c)
  \/ Finalize

Spec == Init /\ [][Next]_vars

\* ------------------------------------------------------------ properties
Range(f) == {f[i] : i \in DOMAIN f}

\* the goroutine's call of match has executed a return statement after the
\* loop, and its deferred calls have not run yet
AtReturn(g) == pc[g] = "defer" /\ retv[g].set

\* what match returns when it runs alone on subject t
RECURSIVE RunLoop(_, _, _, _)
RunLoop(t, m, off, o) ==
  IF ~LoopCond(off, SLen(t)) THEN Returned(o, 0)
  ELSE LET r == PrimResult(t, off)
           a == AfterAttempt(r, o, off)
       IN IF a.next = "error" THEN ErrorReturn(a.out, r.ret)
          ELSE IF a.next = "break" \/ (a.next = "fall" /\ StopAfterFirst(m))
            THEN Returned(a.out, 0)
          ELSE RunLoop(t, m, a.offset, a.out)

RunAlone(t, m) == IF SLen(t) = 0 THEN Returned(<<>>, 0) ELSE RunLoop(t, m, 0, <<>>)

\* goroutines inside one primitive match attempt: pcre2_match invoked, its
\* return code and ovector not yet read and copied out
InAttempt == {g \in Procs : pc[g] \in {"execret", "copy"}}

\* goroutines between r.mtx.Lock() and the deferred r.mtx.Unlock()
InMatch == {g \in Procs : pc[g] \in {"mdcreate", "loop", "exec", "execret", "copy", "defer"}}

\* C1: whatever the interleaving of concurrent searches on one handle, every
\* result a caller has received equals the result of the same call run alone.
C1_ResultsAsSequential ==
  \A g \in Procs : \A m \in BOOLEAN :
    ret[g][m].set => ret[g][m] = RunAlone(subj[g], m)

\* C1 witness: a caller has received a match while the other caller, on a
\* different subject, is in the middle of its own search.
C1_Witness ==
  \E g, h \in Procs :
    /\ g # h
    /\ subj[g] # subj[h]
    /\ ret[g][TRUE].set /\ ret[g][TRUE].out # <<>>
    /\ ret[h][TRUE].set /\ ret[h][TRUE].out = <<>>
    /\ SLen(subj[h]) > 0
    /\ pc[g] = "idle" /\ pc[h] = "idle"

\* C2: at most one caller is inside a primitive match attempt on the handle,
\* and every caller between Lock and the deferred Unlock of match holds r.mtx.
C2_AttemptsSerialize ==
  /\ Cardinality(InAttempt) <= 1
  /\ Cardinality(InMatch) <= 1
  /\ \A g \in InMatch : mtx = g

\* C2 witness: one caller is inside an attempt while the other waits for r.mtx.
C2_Witness ==
  \E g, h \in Procs : g # h /\ pc[g] = "execret" /\ pc[h] = "lock" /\ mtx = g

\* C3 (as claimed): SetCallout never writes the match context while another
\* goroutine is inside a match attempt that reads it.
C3_CalloutExcludesMatch ==
  \A g, h \in Procs : ~(pc[g] = "sc_write" /\ pc[h] = "execret")

\* C4 (as claimed): whatever sequence of Close calls is made, one after the
\* other, by goroutines and by the finalizer, the compiled code and the match
\* context are each released at most once, and exactly once when a Close has
\* completed.
C4_ReleasedExactlyOnce ==
  ~closeOverlap =>
    /\ freed.code <= 1
    /\ freed.mctx <= 1
    /\ tlsClosed > 0 => freed.code = 1 /\ freed.mctx = 1

\* C5 (as claimed): no operation hands a released (or cleared) compiled code
\* or match context to the primitive, before, during or after Close.
C5_ClosedHandleInert == misuse = {}

\* the records are ordered: each starts at or after the end of the one before
\* it, and strictly after its start
Ordered(o) ==
  \A i \in 1..(Len(o) - 1) : o[i + 1][1] >= o[i][2] /\ o[i + 1][1] > o[i][1]

\* C6: the records match has collected, and those it returns with multi set,
\* are ordered and non-overlapping, and none is emitted twice.
C6_OrderedNonOverlapping ==
  \A g \in Procs :
    /\ Ordered(out[g])
    /\ retv[g].set => Ordered(retv[g].out)
    /\ ret[g][TRUE].set => Ordered(ret[g][TRUE].out)

\* C6 witness: a multi search returned two records, the second starting
\* exactly where the first ended.
C6_Witness ==
  \E g \in Procs :
    /\ ret[g][TRUE].set
    /\ Len(ret[g][TRUE].out) >= 2
    /\ ret[g][TRUE].out[2][1] = ret[g][TRUE].out[1][2]

\* no empty record starts at the end of the record emitted just before it
NoAdjacentEmpty(o) ==
  \A i \in 2..Len(o) : o[i][1] = o[i][2] => o[i][1] # o[i - 1][2]

\* goroutine g decides an attempt that returned an empty match
DecidesEmpty(g) ==
  /\ pc[g] = "copy" /\ pc'[g] # "copy"
  /\ md[g].ret >= 0
  /\ md[g].ovec[1] = md[g].ovec[2]

\* C7: an empty match that starts at the end of the last accepted match is not
\* emitted and moves the cursor to end + 1; no emitted empty record starts at
\* the end of the record before it.
C7_AdjacentEmptyDiscarded ==
  [][\A g \in Procs :
       /\ (DecidesEmpty(g) /\ Len(out[g]) > 0
             /\ md[g].ovec[1] = out[g][Len(out[g])][2])
          => (out'[g] = out[g] /\ offset'[g] = md[g].ovec[2] + 1)
       /\ NoAdjacentEmpty(out'[g])
       /\ ret'[g][TRUE].set => NoAdjacentEmpty(ret'[g][TRUE].out)]_vars

\* C7 witness: the loop has just discarded an empty match found at the end of
\* the accepted non-empty match, and the cursor is one past it.
C7_Witness ==
  \E g \in Procs :
    /\ pc[g] = "loop"
    /\ md[g].ret > 0
    /\ md[g].ovec[1] = md[g].ovec[2]
    /\ Len(out[g]) > 0
    /\ out[g][Len(out[g])][1] < out[g][Len(out[g])][2]
    /\ out[g][Len(out[g])][2] = md[g].ovec[1]
    /\ offset[g] = md[g].ovec[2] + 1

\* the pattern matches only the empty string in the subject
OnlyEmpty(t) == \A p \in DOMAIN t : t[p].k # "err" /\ (t[p].k = "m" => t[p].e = p)

C9_AttemptAtEveryCursor ==
  \A g \in Procs :
    /\ (pc[g] = "idle" /\ ret[g][multi[g]].set /\ SLen(subj[g]) = 0)
       => attempts[g] = <<0>>
    /\ (AtReturn(g) /\ retv[g].err = 0 /\ multi[g] /\ offset[g] <= SLen(subj[g]))
       => offset[g] \in Range(attempts[g])

\* C9 (amended): an attempt is made for every cursor value below len(subject)
\* and none at len(subject); an empty subject returns nil without an attempt.
C9_AttemptBelowLength ==
  \A g \in Procs :
    /\ \A i \in DOMAIN attempts[g] : attempts[g][i] < SLen(subj[g])
    /\ pc[g] \in {"exec", "execret", "copy"} => offset[g] < SLen(subj[g])
    /\ (AtReturn(g) /\ retv[g].err = 0 /\ multi[g] /\ offset[g] < SLen(subj[g]))
       => offset[g] \in Range(attempts[g])
    /\ \A b \in BOOLEAN :
         (ret[g][b].set /\ SLen(subj[g]) = 0) => ret[g][b] = Returned(<<>>, 0)

\* C9 witness: a multi search returns after a match that ends at the end of
\* the subject, where the pattern also matches the empty string, and no
\* attempt was made there.
C9_Witness ==
  \E g \in Procs :
    /\ AtReturn(g) /\ multi[g] /\ retv[g].err = 0
    /\ offset[g] = SLen(subj[g])
    /\ Len(out[g]) > 0
    /\ out[g][Len(out[g])][2] = SLen(subj[g])
    /\ subj[g][SLen(subj[g])] = MatchAt(SLen(subj[g]))
    /\ SLen(subj[g]) \notin Range(attempts[g])

\* the result with multi clear is the first record of the result with multi set
FirstOf(f, t) ==
  /\ Len(f.out) <= 1
  /\ f.out = <<>> <=> t.out = <<>>
  /\ f.out # <<>> => f.out[1] = t.out[1]

\* C10 (as claimed): on every subject, match with multi clear returns at most
\* one record, the first record of match with multi set, and none exactly when
\* that result is empty.
C10_SingleIsFirstOfAll ==
  \A g \in Procs :
    (ret[g][FALSE].set /\ ret[g][TRUE].set) => FirstOf(ret[g][FALSE], ret[g][TRUE])

\* C10 (amended): the same, for subjects on which the search with multi set
\* ends without an execution error.
C10_SingleIsFirstOfAllNoError ==
  \A g \in Procs :
    (ret[g][FALSE].set /\ ret[g][TRUE].set /\ ret[g][TRUE].err = 0)
      => /\ ret[g][FALSE].err = 0
         /\ FirstOf(ret[g][FALSE], ret[g][TRUE])

\* C10 witness: both searches have returned on a subject whose first
\* occurrence is an empty match that was discarded; the search with multi set
\* found two records and the single search its first.
C10_Witness ==
  \E g \in Procs :
    /\ ret[g][FALSE].set /\ ret[g][TRUE].set
    /\ ret[g][TRUE].err = 0
    /\ subj[g][0] = MatchAt(0)
    /\ Len(ret[g][TRUE].out) >= 2
    /\ ret[g][FALSE].out = <<ret[g][TRUE].out[1]>>

\* ------------------------------------------------------------------ C12
\* C12: when a primitive attempt ends with a negative code other than
\* no-match, match returns that error and no records, whatever it had
\* accepted before; when the attempt ends with no-match, match returns the
\* records accepted so far and no error.
C12_ErrorDiscardsRecords ==
  \A g \in Procs :
    (AtReturn(g) /\ md[g].ret < 0) =>
      IF md[g].ret = ERROR_NOMATCH
        THEN retv[g] = Returned(out[g], 0)
        ELSE retv[g] = Returned(<<>>, md[g].ret)

\* C12 witness: match is about to return an execution error after it had
\* accepted a record.
C12_Witness ==
  \E g \in Procs :
    /\ AtReturn(g)
    /\ md[g].ret = ERROR_OTHER
    /\ Len(out[g]) >= 1
    /\ retv[g].err = ERROR_OTHER

\* ======================================================================
\* The exported functions above match (src/pcre.go:97-532).  Each call is
\* one step: it runs match on the subject, alone, and works on the records.
\* A subject is now also its bytes.  The functions never look at a byte
\* (what the pattern does with them is the match table), so the byte at
\* every position is its own letter: a displaced, lost or overwritten byte
\* always shows.

\* longest subject of the exported functions
ApiLen == 3
\* most records the caller asks FindAll*, Split for
MaxCap == 3

\* bits of lib.Tsize_t, scaled down; no subject is that long
SizeBits == 16
\* PCRE2_UNSET, ~(PCRE2_SIZE)0: both offsets of a group that took no part
PCRE2_UNSET == (2 ^ SizeBits) - 1
\* int(offset): the conversion of a lib.Tsize_t to int wraps the top value
ToInt(x) == IF x >= 2 ^ (SizeBits - 1) THEN x - 2 ^ SizeBits ELSE x

Letters == <<"a", "b", "c", "d", "e", "f", "g", "h">>
\* the subject of length n
Subject(n) == SubSeq(Letters, 1, n)

Min(a, b) == IF a < b THEN a ELSE b
Max(a, b) == IF a < b THEN b ELSE a

\* b[lo:hi] of Go on a byte string (offsets count from 0): its bounds check
SliceOK(b, lo, hi) == 0 <= lo /\ lo <= hi /\ hi <= Len(b)
\* and its value
Sl(b, lo, hi) == SubSeq(b, lo + 1, hi)

\* what the groups of the pattern do in a match at <<s, e>>: the pattern has
\* no group, or one group that took no part in the match, spans the whole
\* match, or spans its first byte
GroupModes == {"none", "unset", "whole", "head"}

\* the ovector of a match: the pair of the match, then the pair of the group
Ovector(rec, grp) ==
  CASE grp = "none" -> rec
    [] grp = "unset" -> rec \o <<PCRE2_UNSET, PCRE2_UNSET>>
    [] grp = "whole" -> rec \o rec
    [] grp = "head" -> rec \o <<rec[1], Min(rec[1] + 1, rec[2])>>

\* matches, err := r.match(b, 0, true), every record with its whole ovector
Matches(t, grp) ==
  LET o == RunAlone(t, TRUE).out
  IN [i \in 1..Len(o) |-> Ovector(o[i], grp)]

\* ----------------------------------------------------------- FindAll*
\* if len(matches) == 0 || n == 0 { return nil }
\* if n > 0 && len(matches) > n { matches = matches[:n] }
CapMatches(matches, n) ==
  IF Len(matches) = 0 \/ n = 0 THEN [nil |-> TRUE, ms |-> <<>>]
  ELSE IF n > 0 /\ Len(matches) > n
    THEN [nil |-> FALSE, ms |-> SubSeq(matches, 1, n)]
  ELSE [nil |-> FALSE, ms |-> matches]

\* the four functions differ in what they make of a record
FindKinds == {"FindAll", "FindAllIndex", "FindAllSubmatch", "FindAllSubmatchIndex"}
\* FindAll and FindAllIndex read only the pair of the whole match
WholeMatchKinds == {"FindAll", "FindAllIndex"}

\* a record cannot be converted: b[match[i]:match[i+1]] is out of range
ConvertPanics(kind, b, match) ==
  /\ kind \in {"FindAll", "FindAllSubmatch"}
  /\ \E k \in 1..(IF kind = "FindAll" THEN 1 ELSE Len(match) \div 2) :
       ~SliceOK(b, match[2 * k - 1], match[2 * k])

Convert(kind, b, match) ==
  CASE kind = "FindAll" -> Sl(b, match[1], match[2])
    [] kind = "FindAllIndex" -> <<ToInt(match[1]), ToInt(match[2])>>
    [] kind = "FindAllSubmatch" ->
         [k \in 1..(Len(match) \div 2) |-> Sl(b, match[2 * k - 1], match[2 * k])]
    [] kind = "FindAllSubmatchIndex" -> [i \in 1..Len(match) |-> ToInt(match[i])]

\* FindAll, FindAllIndex, FindAllSubmatch, FindAllSubmatchIndex
FindAllResult(kind, b, matches, n) ==
  LET c == CapMatches(matches, n)
  IN IF \E i \in 1..Len(c.ms) : ConvertPanics(kind, b, c.ms[i])
       THEN [panic |-> TRUE, nil |-> FALSE, res |-> <<>>]
       ELSE [panic |-> FALSE, nil |-> c.nil,
             res |-> [i \in 1..Len(c.ms) |-> Convert(kind, b, c.ms[i])]]

\* no call is running and none has returned
ApiIdle == api.op = "none"

\* the input is a handle and a subject for a call of an exported function
HasArgs == inp.op = "args"

FindAll(kind, grp, n) ==
  /\ ApiIdle
  /\ HasArgs
  /\ LET r == FindAllResult(kind, inp.b, Matches(inp.t, grp), n)
     IN api' = [op |-> "FindAll", kind |-> kind, grp |-> grp, n |-> n,
                panic |-> r.panic, nil |-> r.nil, res |-> r.res]
  /\ UNCHANGED <<pc, ops, subj, multi, offset, out, md, retv, ret, attempts,
                 mtx, calloutMtx, scan, re, freed, tlsClosed, callout,
                 mctxCallout, misuse, collected, closeOverlap, inp, fsys, walk>>

\* ------------------------------------------------------ byte slices
\* The memory of a call is a sequence of arrays.  Array 1 is the caller's
\* buffer src, array 2 the caller's repl; make, append and the conversions
\* from string add arrays.  A slice is an array, the offset of its first
\* byte in it, a length and a capacity.
Pad(k) == [i \in 1..k |-> "_"]

View(mem, sl) == SubSeq(mem[sl.a], sl.lo + 1, sl.lo + sl.len)

\* a new array holding bytes, with spare bytes of capacity behind them
Alloc(mem, bytes, spare) ==
  [mem |-> Append(mem, bytes \o Pad(spare)),
   sl |-> [a |-> Len(mem) + 1, lo |-> 0, len |-> Len(bytes),
           cap |-> Len(bytes) + spare]]

\* sl[lo:hi]: the same array; the capacity runs to the end of sl's capacity
ResliceOK(sl, lo, hi) == 0 <= lo /\ lo <= hi /\ hi <= sl.cap
Reslice(sl, lo, hi) ==
  [a |-> sl.a, lo |-> sl.lo + lo, len |-> hi - lo, cap |-> sl.cap - lo]

\* append(sl, elems...): in place behind sl when its capacity allows it,
\* else into a new array
GoAppend(mem, sl, elems, spare) ==
  IF sl.len + Len(elems) <= sl.cap
    THEN LET old == mem[sl.a]
             from == sl.lo + sl.len
         IN [mem |-> [mem EXCEPT ![sl.a] =
                        [i \in 1..Len(old) |->
                           IF i > from /\ i <= from + Len(elems)
                             THEN elems[i - from] ELSE old[i]]],
             sl |-> [sl EXCEPT !.len = sl.len + Len(elems)]]
    ELSE Alloc(mem, View(mem, sl) \o elems, spare)

\* ---------------------------------------------------------- replaceBytes
\* faulty variant: the drift of the earlier splices is forgotten
NextDiff_Last(diff, outLen, srcLen) == outLen - srcLen

\* return diff + int64(len(out)-len(src)), out
NextDiff(diff, outLen, srcLen) == diff + (outLen - srcLen)

NoSplice == [panic |-> TRUE, mem |-> <<>>, out |-> <<>>, diff |-> 0]

\* out = append(src[:int64(sOff)+diff], append(repl, src[int64(eOff)+diff:]...)...)
replaceBytes(mem, src, repl, sOff, eOff, diff, spare) ==
  IF ~ResliceOK(src, 0, sOff + diff) \/ eOff + diff < 0 \/ eOff + diff > src.len
    THEN NoSplice
    ELSE LET tail == View(mem, Reslice(src, eOff + diff, src.len))
             inner == GoAppend(mem, repl, tail, spare)
             outer == GoAppend(inner.mem, Reslice(src, 0, sOff + diff),
                               View(inner.mem, inner.sl), spare)
         IN [panic |-> FALSE, mem |-> outer.mem, out |-> outer.sl,
             diff |-> NextDiff(diff, outer.sl.len, src.len)]

\* ------------------------------------------------- template expansion
\* what os.Expand finds in a template: a literal byte, ${digits} with the
\* value strconv.Atoi gives it, or ${name} with a name
Lit(c) == [k |-> "lit", c |-> c, i |-> 0]
Num(i) == [k |-> "num", c |-> "", i |-> i]
Name(c) == [k |-> "name", c |-> c, i |-> 0]

\* r.SubexpIndex(s): the group of the pattern, if it has one, is named "n"
SubexpIndex(name, grp) == IF name = "n" /\ grp # "none" THEN 1 ELSE 0 - 1

\* if i == 0 || len(match) < (2*i)+1 { return "" }
SkipsGroup(i, match) == i = 0 \/ Len(match) < (2 * i) + 1

\* the mapping function ReplaceAll hands to os.Expand, for group number i:
\* string(src[match[2*i]:match[(2*i)+1]])
GroupBytes(i, match, src) ==
  IF SkipsGroup(i, match) THEN [panic |-> FALSE, bytes |-> <<>>]
  ELSE IF 2 * i < 0 \/ (2 * i) + 1 >= Len(match)
    THEN [panic |-> TRUE, bytes |-> <<>>]
  ELSE IF ~SliceOK(src, match[(2 * i) + 1], match[(2 * i) + 2])
    THEN [panic |-> TRUE, bytes |-> <<>>]
  ELSE [panic |-> FALSE, bytes |-> Sl(src, match[(2 * i) + 1], match[(2 * i) + 2])]

ExpandItem(item, match, src, grp) ==
  CASE item.k = "lit" -> [panic |-> FALSE, bytes |-> <<item.c>>]
    [] item.k = "num" -> GroupBytes(item.i, match, src)
    [] item.k = "name" ->
         IF SubexpIndex(item.c, grp) = 0 - 1
           THEN [panic |-> FALSE, bytes |-> <<>>]
           ELSE GroupBytes(SubexpIndex(item.c, grp), match, src)

\* os.Expand(string(repl), ...)
RECURSIVE ExpandTemplate(_, _, _, _)
ExpandTemplate(tmpl, match, src, grp) ==
  IF tmpl = <<>> THEN [panic |-> FALSE, bytes |-> <<>>]
  ELSE LET h == ExpandItem(Head(tmpl), match, src, grp)
           r == ExpandTemplate(Tail(tmpl), match, src, grp)
       IN [panic |-> h.panic \/ r.panic, bytes |-> h.bytes \o r.bytes]

\* ------------------------------------------------------------ ReplaceAll*
\* most spare capacity of a buffer: of the caller's, and of those the
\* runtime allocates for append and for the conversions from string
MaxSpare == 1

\* the caller's src, the caller's repl
SrcSlice(b, spare) == [a |-> 1, lo |-> 0, len |-> Len(b), cap |-> Len(b) + spare]
ReplSlice(x, spare) == [a |-> 2, lo |-> 0, len |-> Len(x), cap |-> Len(x) + spare]

\* what a callback of ReplaceAllFunc returns: new bytes "x", its argument
\* with "x" behind it in a new buffer, its argument, or its argument without
\* the last byte (a slice of the argument)
CallbackKinds == {"x", "grow", "arg", "trim"}
\* a callback that is invoked k times: what it does on its first, second and
\* third invocation, and then again
Callbacks(k) == [1..Min(k, 3) -> CallbackKinds]

CallbackResult(kind, mem, arg, spare) ==
  CASE kind = "x" -> Alloc(mem, <<"x">>, spare)
    [] kind = "grow" -> Alloc(mem, View(mem, arg) \o <<"x">>, spare)
    [] kind = "arg" -> [mem |-> mem, sl |-> arg]
    [] kind = "trim" -> [mem |-> mem, sl |-> Reslice(arg, 0, Max(arg.len - 1, 0))]

\* the replacement of the i-th match: repl(src[match[0]:match[1]]) of
\* ReplaceAllFunc, repl of ReplaceAllLiteral, []byte(replStr) of ReplaceAll
Expansion(how, mem, match, i, spare) ==
  LET src == SrcSlice(how.b, spare)
  IN CASE how.op = "ReplaceAllFunc" ->
            LET arg == Reslice(src, match[1], match[2])
                r == CallbackResult(how.cb[((i - 1) % 3) + 1], mem, arg, spare)
            IN [panic |-> FALSE, mem |-> r.mem, sl |-> r.sl, arg |-> View(mem, arg)]
       [] how.op = "ReplaceAllLiteral" ->
            [panic |-> FALSE, mem |-> mem, sl |-> ReplSlice(how.repl, spare),
             arg |-> <<>>]
       [] how.op = "ReplaceAll" ->
            LET e == ExpandTemplate(how.repl, match, View(mem, src), how.grp)
                r == Alloc(mem, e.bytes, spare)
            IN [panic |-> e.panic, mem |-> r.mem, sl |-> r.sl, arg |-> <<>>]

\* for _, match := range matches { ...; diff, out = replaceBytes(...) }
\* st keeps out and diff, and the history of the call: the arguments the
\* callback got (args), the replacements (xs), diff after every splice
RECURSIVE ReplaceLoop(_, _, _, _, _)
ReplaceLoop(how, st, matches, i, spare) ==
  IF i > Len(matches) THEN st
  ELSE LET x == Expansion(how, st.mem, matches[i], i, spare)
           r == replaceBytes(x.mem, st.out, x.sl, matches[i][1], matches[i][2],
                             st.diff, spare)
       IN IF x.panic \/ r.panic THEN [st EXCEPT !.panic = TRUE]
          ELSE ReplaceLoop(how,
                           [panic |-> FALSE, mem |-> r.mem, out |-> r.out,
                            diff |-> r.diff, args |-> Append(st.args, x.arg),
                            xs |-> Append(st.xs, View(x.mem, x.sl)),
                            drifts |-> Append(st.drifts, r.diff)],
                           matches, i + 1, spare)

\* ReplaceAll, ReplaceAllFunc, ReplaceAllLiteral:
\* if len(matches) == 0 { return src }; out := make([]byte, len(src)); copy
ReplaceResult(how, matches, spare) ==
  LET lit == IF how.op = "ReplaceAllLiteral" THEN how.repl ELSE <<>>
      mem0 == <<how.b \o Pad(spare), lit \o Pad(spare)>>
      src == SrcSlice(how.b, spare)
      st0 == [panic |-> FALSE, mem |-> mem0, out |-> src, diff |-> 0,
              args |-> <<>>, xs |-> <<>>, drifts |-> <<>>]
      made == Alloc(mem0, View(mem0, src), 0)
  IN IF Len(matches) = 0 THEN st0
     ELSE ReplaceLoop(how, [st0 EXCEPT !.mem = made.mem, !.out = made.sl],
                      matches, 1, spare)

\* the call returns (or panics): api keeps its arguments, its result, whether
\* the result lies in the caller's buffer, and that buffer after the call
Replace(how, spare) ==
  /\ ApiIdle
  /\ HasArgs
  /\ LET r == ReplaceResult(how, Matches(inp.t, how.grp), spare)
     IN api' = [op |-> how.op, grp |-> how.grp, repl |-> how.repl,
                cb |-> how.cb, spare |-> spare, panic |-> r.panic,
                res |-> IF r.panic THEN <<>> ELSE View(r.mem, r.out),
                shares |-> ~r.panic /\ r.out.a = 1,
                srcAfter |-> IF r.panic THEN <<>>
                             ELSE View(r.mem, SrcSlice(inp.b, spare)),
                args |-> r.args, xs |-> r.xs, drifts |-> r.drifts]
  /\ UNCHANGED <<pc, ops, subj, multi, offset, out, md, retv, ret, attempts,
                 mtx, calloutMtx, scan, re, freed, tlsClosed, callout,
                 mctxCallout, misuse, collected, closeOverlap, inp, fsys, walk>>

\* the templates: one marker, alone or behind a literal byte
Markers == {Num(i) : i \in (0 - 1)..2} \cup {Name("n"), Name("hi")}
Templates == {<<m>> : m \in Markers} \cup {<<Lit("x"), m>> : m \in Markers}

NoCallback == [i \in 1..3 |-> "x"]

ReplaceAll(tmpl, grp, spare) ==
  Replace([op |-> "ReplaceAll", b |-> inp.b, grp |-> grp, repl |-> tmpl,
           cb |-> NoCallback], spare)

ReplaceAllFunc(cb, spare) ==
  Replace([op |-> "ReplaceAllFunc", b |-> inp.b, grp |-> "none", repl |-> <<>>,
           cb |-> cb], spare)

Literals == {<<>>, <<"x">>, <<"x", "y">>}

ReplaceAllLiteral(repl, spare) ==
  Replace([op |-> "ReplaceAllLiteral", b |-> inp.b, grp |-> "none",
           repl |-> repl, cb |-> NoCallback], spare)

\* ------------------------------------------------------ callout bridge
\* highest capture_top of a callout block: the pattern has MaxTop - 1 groups
MaxTop == 3

\* what the offset vector of a callout block holds for a group, on a
\* subject of length n: the group is unset, or spans these bytes
GroupSpans(n) == {<<PCRE2_UNSET, PCRE2_UNSET>>, <<0, 0>>, <<0, n>>, <<n, n>>}

RECURSIVE Concat(_)
Concat(seqs) == IF seqs = <<>> THEN <<>> ELSE Head(seqs) \o Concat(Tail(seqs))

\* the offset vectors of a callout block with capture_top = top: the pair of
\* the match is not set in a callout, group top - 1 is the highest that is
OffsetVectors(n, top) ==
  {<<PCRE2_UNSET, PCRE2_UNSET>> \o Concat(g) :
     g \in {h \in [1..(MaxTop - 1) -> GroupSpans(n)] :
              /\ top > 1 => h[top - 1][1] # PCRE2_UNSET
              /\ \A k \in top..(MaxTop - 1) : h[k][1] = PCRE2_UNSET}}

\* for i := 0; i < len(ovecSlice); i += 2 { ... }: i counts from 0
RECURSIVE SubstringsFrom(_, _, _)
SubstringsFrom(subject, ovecSlice, i) ==
  IF i >= Len(ovecSlice) THEN [panic |-> FALSE, strs |-> <<>>]
  ELSE LET lo == ovecSlice[i + 1]
           last == i + 1 >= Len(ovecSlice)
           hi == IF last THEN Len(subject) ELSE ovecSlice[i + 2]
           rest == SubstringsFrom(subject, ovecSlice, i + 2)
       IN IF ~SliceOK(subject, lo, hi) THEN [panic |-> TRUE, strs |-> <<>>]
          ELSE [panic |-> rest.panic,
                strs |-> IF rest.panic THEN <<>>
                         ELSE <<Sl(subject, lo, hi)>> \o rest.strs]

\* ovecSlice := unsafe.Slice(offset_vector, (capture_top*2)-1)[2:], the
\* walk over it, then return fn(cb)
BridgeResult(subject, ov, top, rc) ==
  IF 2 > (top * 2) - 1
    THEN [panic |-> TRUE, strs |-> <<>>, calls |-> 0, ret |-> 0]
    ELSE LET w == SubstringsFrom(subject, SubSeq(ov, 3, (top * 2) - 1), 0)
         IN IF w.panic THEN [panic |-> TRUE, strs |-> <<>>, calls |-> 0, ret |-> 0]
            ELSE [panic |-> FALSE, strs |-> w.strs, calls |-> 1, ret |-> rc]

\* the codes of the registered function: continue, or force an error
CalloutCodes == {0, 1}

\* the primitive invokes the registered callout during a match attempt on
\* the subject, with the callout block inp; the registered function returns rc
CalloutBridge(rc) ==
  /\ ApiIdle
  /\ inp.op = "block"
  /\ LET r == BridgeResult(inp.b, inp.ov, inp.top, rc)
     IN api' = [op |-> "Callout", top |-> inp.top, ov |-> inp.ov, rc |-> rc,
                panic |-> r.panic, strs |-> r.strs, calls |-> r.calls,
                ret |-> r.ret]
  /\ UNCHANGED <<pc, ops, subj, multi, offset, out, md, retv, ret, attempts,
                 mtx, calloutMtx, scan, re, freed, tlsClosed, callout,
                 mctxCallout, misuse, collected, closeOverlap, inp, fsys, walk>>

\* the table of the empty pattern: an empty match at every position
EmptyPatternTable(n) == [p \in 0..n |-> MatchAt(p)]

\* ---------------------------------------------------------------- Split
\* faulty variant: the loop stops one substring late
SplitStop_Late(n, k) == n > 0 /\ k >= n

\* if n > 0 && len(strings) >= n-1 { break }
SplitStop(n, k) == n > 0 /\ k >= n - 1

\* for _, match := range matches { ... }: the substrings, beg and end
RECURSIVE SplitLoop(_, _, _, _, _)
SplitLoop(s, matches, n, i, st) ==
  IF i > Len(matches) \/ SplitStop(n, Len(st.strs)) \/ st.panic THEN st
  ELSE LET match == matches[i]
       IN IF match[2] # 0 /\ ~SliceOK(s, st.beg, match[1])
            THEN [st EXCEPT !.panic = TRUE]
            ELSE SplitLoop(s, matches, n, i + 1,
                           [panic |-> FALSE,
                            strs |-> IF match[2] # 0
                                       THEN Append(st.strs, Sl(s, st.beg, match[1]))
                                       ELSE st.strs,
                            beg |-> match[2], end |-> match[1]])

\* Split(s, n), with matches := r.FindAllStringIndex(s, n)
SplitResult(s, t, exprEmpty, n) ==
  IF n = 0 THEN [panic |-> FALSE, nil |-> TRUE, res |-> <<>>]
  ELSE IF ~exprEmpty /\ Len(s) = 0
    THEN [panic |-> FALSE, nil |-> FALSE, res |-> << <<>> >>]
  ELSE LET found == FindAllResult("FindAllIndex", s, Matches(t, "none"), n)
           st == SplitLoop(s, found.res, n, 1,
                           [panic |-> found.panic, strs |-> <<>>, beg |-> 0,
                            end |-> 0])
       IN IF st.panic \/ (st.end # Len(s) /\ ~SliceOK(s, st.beg, Len(s)))
            THEN [panic |-> TRUE, nil |-> FALSE, res |-> <<>>]
          ELSE IF st.end # Len(s)
            THEN [panic |-> FALSE, nil |-> FALSE,
                  res |-> Append(st.strs, Sl(s, st.beg, Len(s)))]
          ELSE [panic |-> FALSE, nil |-> FALSE, res |-> st.strs]

Split(n) ==
  /\ ApiIdle
  /\ HasArgs
  /\ LET r == SplitResult(inp.b, inp.t, inp.exprEmpty, n)
     IN api' = [op |-> "Split", n |-> n, panic |-> r.panic, nil |-> r.nil,
                res |-> r.res]
  /\ UNCHANGED <<pc, ops, subj, multi, offset, out, md, retv, ret, attempts,
                 mtx, calloutMtx, scan, re, freed, tlsClosed, callout,
                 mctxCallout, misuse, collected, closeOverlap, inp, fsys, walk>>

\* the positions of subject t at which a search for all matches consults the
\* pattern: an attempt at offset scans up to the leftmost match or to the end
\* of the subject, and the next attempt starts where the loop puts the cursor
RECURSIVE Probed(_, _)
Probed(t, off) ==
  IF ~LoopCond(off, SLen(t)) THEN {}
  ELSE LET r == PrimResult(t, off)
       IN IF r.ret < 0 THEN off..SLen(t)
          ELSE (off..r.ovec[1])
                 \cup Probed(t, IF r.ovec[1] = r.ovec[2]
                                  THEN NextOffsetEmpty(r.ovec)
                                  ELSE NextOffsetAccepted(r.ovec))

\* what a pattern can do on a subject of length n, as far as a search can
\* tell: one table for all that differ only at positions no attempt consults
SearchTables(n) ==
  {t \in TablesOfLen(n, FALSE) :
     \A p \in 0..n : p \notin Probed(t, 0) => t[p] = NoneAt}

\* a handle, and a subject of length n with what its pattern does on it;
\* r.expr is empty only for the empty pattern
InputsOfLen(n) ==
  {[op |-> "args", b |-> Subject(n), t |-> t, exprEmpty |-> FALSE] :
     t \in SearchTables(n)}
  \cup {[op |-> "args", b |-> Subject(n), t |-> EmptyPatternTable(n),
          exprEmpty |-> TRUE]}

Inputs == UNION {InputsOfLen(n) : n \in 0..ApiLen}

\* the callout blocks the primitive can pass to the bridge during a match
\* attempt on a subject of length n (match makes no attempt on an empty
\* subject)
BlocksOfLen(n) ==
  UNION {{[op |-> "block", b |-> Subject(n), top |-> top, ov |-> ov] :
            ov \in OffsetVectors(n, top)} : top \in 1..MaxTop}

Blocks == UNION {BlocksOfLen(n) : n \in 1..ApiLen}

InitApi ==
  /\ inp \in Inputs \cup Blocks
  /\ api = NoCall
  /\ fsys = NoCall
  /\ walk = NoCall
  /\ subj = [g \in Procs |-> [p \in 0..0 |-> NoneAt]]
  /\ ops = [g \in Procs |-> 0]
  /\ InitRest

Caps == (0 - 1)..MaxCap

NextApi ==
  \/ \E k \in FindKinds, g \in GroupModes, n \in Caps :
       /\ k \in WholeMatchKinds => g = "none"
       /\ FindAll(k, g, n)
  \/ \E x \in Templates, g \in GroupModes, c \in 0..MaxSpare : ReplaceAll(x, g, c)
  \/ /\ HasArgs
     /\ \E f \in Callbacks(Len(Matches(inp.t, "none"))), c \in 0..MaxSpare :
          ReplaceAllFunc(f, c)
  \/ \E x \in Literals, c \in 0..MaxSpare : ReplaceAllLiteral(x, c)
  \/ \E n \in Caps : Split(n)
  \/ \E rc \in CalloutCodes : CalloutBridge(rc)

SpecApi == InitApi /\ [][NextApi]_vars

\* ======================================================================
\* Glob (src/unnamed/part_000:78-156).  The file system is a tree below the
\* base directory of the glob: a path is the sequence of names from the base
\* directory, <<>> the base directory itself.  What the compiled glob does
\* on a path (r.MatchString(path)) is given by the final names it accepts
\* and by whether it accepts the base directory.

\* the names of directory entries, in the order of os.ReadDir and WalkDir
FsNames == <<"a", "b">>

FsPaths ==
  {<<>>} \cup {<<FsNames[i]>> : i \in DOMAIN FsNames}
         \cup {<<FsNames[i], FsNames[j]>> : i \in DOMAIN FsNames, j \in DOMAIN FsNames}

Parent(p) == SubSeq(p, 1, Len(p) - 1)

\* a path is absent, a file, a directory, or a directory that cannot be read
IsDir(kind) == kind \in {"dir", "locked"}

\* the trees: an entry lies in a directory; the directories that cannot be
\* read are the base directory and its children
FileSystems ==
  {k \in [FsPaths -> {"none", "file", "dir", "locked"}] :
     /\ \A p \in FsPaths \ {<<>>} : k[p] # "none" => IsDir(k[Parent(p)])
     /\ \A p \in FsPaths : Len(p) > 1 => k[p] # "locked"}

\* the entries of directory p from the i-th name on, sorted by name
RECURSIVE EntriesFrom(_, _, _)
EntriesFrom(k, p, i) ==
  IF i > Len(FsNames) \/ p \o <<FsNames[i]>> \notin FsPaths THEN <<>>
  ELSE (IF k[p \o <<FsNames[i]>>] # "none" THEN <<p \o <<FsNames[i]>>>> ELSE <<>>)
         \o EntriesFrom(k, p, i + 1)

\* os.ReadDir(p) of a directory that can be read
ReadDir(k, p) == EntriesFrom(k, p, 1)

\* r.MatchString(path)
MatchString(p) ==
  IF p = <<>> THEN fsys.base ELSE p[Len(p)] \in fsys.names

\* what the glob text is: empty, the name of an existing entry, a text
\* without *, [, ] or ?, a text the primitive cannot convert, or a glob
\* below a base directory, without or with **
GlobShapes == {"empty", "exists", "plain", "invalid", "flat", "rec"}

\* Glob returns matches and err
Done(matches, err) == [op |-> "done", todo |-> <<>>, matches |-> matches, err |-> err]

\* Glob up to the traversal: the early returns, os.Lstat(dir), CompileGlob,
\* and in flat mode os.ReadDir(dir)
GlobStart ==
  /\ fsys.op = "glob" /\ walk.op = "none"
  /\ walk' =
       CASE fsys.shape \in {"empty", "plain"} -> Done(<<>>, "none")
         [] fsys.shape = "exists" -> Done(<< <<>> >>, "none")
         [] fsys.shape = "invalid" ->
              IF fsys.kind[<<>>] = "none" THEN Done(<<>>, "lstat")
              ELSE Done(<<>>, "convert")
         [] fsys.shape = "rec" ->
              IF fsys.kind[<<>>] = "none" THEN Done(<<>>, "lstat")
              ELSE [op |-> "walk", todo |-> << <<>> >>, matches |-> <<>>,
                    err |-> "none"]
         [] fsys.shape = "flat" ->
              IF fsys.kind[<<>>] = "none" THEN Done(<<>>, "lstat")
              ELSE IF fsys.kind[<<>>] # "dir" THEN Done(<<>>, "readdir")
              ELSE [op |-> "list", todo |-> ReadDir(fsys.kind, <<>>),
                    matches |-> <<>>, err |-> "none"]
  /\ UNCHANGED <<pc, ops, subj, multi, offset, out, md, retv, ret, attempts,
                 mtx, calloutMtx, scan, re, freed, tlsClosed, callout,
                 mctxCallout, misuse, collected, closeOverlap, inp, api, fsys>>

\* what the function Glob hands to filepath.WalkDir does with a path: it does
\* not look at err and returns nil
WalkFn(p) == IF MatchString(p) THEN <<p>> ELSE <<>>

\* filepath.WalkDir visits the next path: it calls the function with the
\* path; for a directory it reads the entries, and calls the function a
\* second time, with the error, when they cannot be read
WalkVisit ==
  /\ walk.op = "walk" /\ walk.todo # <<>>
  /\ LET p == Head(walk.todo)
         kind == fsys.kind[p]
     IN walk' = [walk EXCEPT
                   !.matches = @ \o WalkFn(p)
                                 \o (IF kind = "locked" THEN WalkFn(p) ELSE <<>>),
                   !.todo = (IF kind = "dir" THEN ReadDir(fsys.kind, p) ELSE <<>>)
                              \o Tail(@)]
  /\ UNCHANGED <<pc, ops, subj, multi, offset, out, md, retv, ret, attempts,
                 mtx, calloutMtx, scan, re, freed, tlsClosed, callout,
                 mctxCallout, misuse, collected, closeOverlap, inp, api, fsys>>

\* for _, file := range files { path := filepath.Join(dir, file.Name()) ... }
ListVisit ==
  /\ walk.op = "list" /\ walk.todo # <<>>
  /\ walk' = [walk EXCEPT !.matches = @ \o WalkFn(Head(walk.todo)),
                          !.todo = Tail(@)]
  /\ UNCHANGED <<pc, ops, subj, multi, offset, out, md, retv, ret, attempts,
                 mtx, calloutMtx, scan, re, freed, tlsClosed, callout,
                 mctxCallout, misuse, collected, closeOverlap, inp, api, fsys>>

\* WalkDir has returned nil, or the loop over files is over: return matches, nil
GlobReturn ==
  /\ walk.op \in {"walk", "list"} /\ walk.todo = <<>>
  /\ walk' = Done(walk.matches, "none")
  /\ UNCHANGED <<pc, ops, subj, multi, offset, out, md, retv, ret, attempts,
                 mtx, calloutMtx, scan, re, freed, tlsClosed, callout,
                 mctxCallout, misuse, collected, closeOverlap, inp, api, fsys>>

\* the trees of the calls that return before the traversal: the base
\* directory alone
OnlyBase == [p \in FsPaths |-> IF p = <<>> THEN "dir" ELSE "none"]

GlobInputs ==
  {[op |-> "glob", shape |-> sh, kind |-> k, names |-> n, base |-> b] :
     sh \in {"flat", "rec"}, k \in FileSystems,
     n \in SUBSET {FsNames[i] : i \in DOMAIN FsNames}, b \in BOOLEAN}
  \cup {[op |-> "glob", shape |-> sh, kind |-> OnlyBase, names |-> {},
         base |-> FALSE] : sh \in GlobShapes}

InitGlob ==
  /\ fsys \in GlobInputs
  /\ walk = NoCall
  /\ inp = NoCall
  /\ api = NoCall
  /\ subj = [g \in Procs |-> [p \in 0..0 |-> NoneAt]]
  /\ ops = [g \in Procs |-> 0]
  /\ InitRest

NextGlob ==
  \/ GlobStart
  \/ WalkVisit
  \/ ListVisit
  \/ GlobReturn

SpecGlob == InitGlob /\ [][NextGlob]_vars

\* ------------------------------------------------------------------ C11
\* the records of the full search of the subject of the call
FullSearch == RunAlone(inp.t, TRUE).out

\* the match a converted record stands for, by the kind of the function
IsRecordOf(kind, x, rec) ==
  CASE kind = "FindAll" -> x = Sl(inp.b, rec[1], rec[2])
    [] kind = "FindAllIndex" -> x = rec
    [] kind = "FindAllSubmatch" -> Len(x) >= 1 /\ x[1] = Sl(inp.b, rec[1], rec[2])
    [] kind = "FindAllSubmatchIndex" -> Len(x) >= 2 /\ <<x[1], x[2]>> = rec

\* C11: FindAll, FindAllIndex, FindAllSubmatch and FindAllSubmatchIndex with
\* cap n return nil for n = 0, every record of the full search for n < 0 and
\* the first min(n, total) records of the full search, in order, for n > 0.
C11_CapKeepsFirstRecords ==
  api.op = "FindAll" =>
    LET total == Len(FullSearch)
        keep == IF api.n < 0 THEN total ELSE Min(api.n, total)
    IN /\ ~api.panic
       /\ api.n = 0 => api.nil
       /\ Len(api.res) = keep
       /\ \A i \in 1..keep : IsRecordOf(api.kind, api.res[i], FullSearch[i])

\* ------------------------------------------------------------------ C13
ReplaceOps == {"ReplaceAll", "ReplaceAllFunc", "ReplaceAllLiteral"}

\* b[from:s_i] ++ x_i ++ b[e_i:s_(i+1)] ++ ... ++ x_k ++ b[e_k:]
RECURSIVE Spliced(_, _, _, _, _)
Spliced(b, recs, xs, i, from) ==
  IF i > Len(recs) THEN Sl(b, from, Len(b))
  ELSE Sl(b, from, recs[i][1]) \o xs[i] \o Spliced(b, recs, xs, i + 1, recs[i][2])

\* the sum over j <= i of len(x_j) - (e_j - s_j)
RECURSIVE DriftSum(_, _, _)
DriftSum(recs, xs, i) ==
  IF i = 0 THEN 0
  ELSE DriftSum(recs, xs, i - 1) + Len(xs[i]) - (recs[i][2] - recs[i][1])

\* C13: ReplaceAll, ReplaceAllFunc and ReplaceAllLiteral return the subject
\* with every match of the full search replaced by its expansion, the bytes
\* between the matches kept; the drift after the i-th splice is the sum of
\* len(x_j) - (e_j - s_j) over j <= i; with no match the result equals the
\* subject.
C13_ResultIsSpliced ==
  (api.op \in ReplaceOps /\ ~api.panic) =>
    /\ Len(api.xs) = Len(FullSearch)
    /\ api.res = Spliced(inp.b, FullSearch, api.xs, 1, 0)
    /\ Len(api.drifts) = Len(FullSearch)
    /\ \A i \in 1..Len(FullSearch) : api.drifts[i] = DriftSum(FullSearch, api.xs, i)
    /\ Len(FullSearch) = 0 => api.res = inp.b

\* C13 witness: a call has returned that replaced three matches, by an
\* expansion longer than the match, by one shorter and by one as long.
C13_Witness ==
  /\ api.op \in ReplaceOps /\ ~api.panic
  /\ Len(FullSearch) = 3
  /\ \E i, j, k \in 1..3 :
       /\ Len(api.xs[i]) > FullSearch[i][2] - FullSearch[i][1]
       /\ Len(api.xs[j]) < FullSearch[j][2] - FullSearch[j][1]
       /\ Len(api.xs[k]) = FullSearch[k][2] - FullSearch[k][1]
       /\ i < j
  /\ api.res = Spliced(inp.b, FullSearch, api.xs, 1, 0)

\* ------------------------------------------------------------ C14, C15
\* the marker of the template of the call, and the literal bytes before it
MarkerOf(tmpl) == tmpl[Len(tmpl)]
LiteralOf(tmpl) == [i \in 1..(Len(tmpl) - 1) |-> tmpl[i].c]

\* the number of the group a marker names: its digits, or the name's index
GroupOf(m, grp) == IF m.k = "num" THEN m.i ELSE SubexpIndex(m.c, grp)

\* group number i took part in the match of rec: 0 is the match itself
TookPart(i, rec, grp) ==
  /\ 0 <= i /\ (2 * i) + 2 <= Len(Ovector(rec, grp))
  /\ Ovector(rec, grp)[(2 * i) + 1] # PCRE2_UNSET

\* the bytes of the subject that group number i of the match of rec spans
BytesOfGroup(i, rec, grp) ==
  Sl(inp.b, Ovector(rec, grp)[(2 * i) + 1], Ovector(rec, grp)[(2 * i) + 2])

\* C14: a marker ${digits} expands to the bytes of the group with that
\* number, and ${0} to the bytes subject[start:end] of the match.
C14_NumberSelectsGroup ==
  (api.op = "ReplaceAll" /\ MarkerOf(api.repl).k = "num") =>
    \A j \in 1..Len(FullSearch) :
      TookPart(MarkerOf(api.repl).i, FullSearch[j], api.grp) =>
        /\ Len(api.xs) >= j
        /\ api.xs[j] = LiteralOf(api.repl)
                         \o BytesOfGroup(MarkerOf(api.repl).i, FullSearch[j], api.grp)

\* C15: a marker with a name that is no group of the pattern, with a number
\* that is no group number of the pattern (a negative one too), or of a
\* group that took no part in the match expands to the empty string, and the
\* call does not panic.
C15_ExpansionIsTotal ==
  api.op = "ReplaceAll" =>
    \A j \in 1..Len(FullSearch) :
      ~TookPart(GroupOf(MarkerOf(api.repl), api.grp), FullSearch[j], api.grp) =>
        /\ ~api.panic
        /\ api.xs[j] = LiteralOf(api.repl)

\* ------------------------------------------------------------------ C16
\* C16: ReplaceAllFunc calls the callback once for every record of the full
\* search, in order, the i-th time with the bytes of the original subject
\* at the span of the i-th record, whatever the callback returns.
C16_CallbackGetsOriginalBytes ==
  api.op = "ReplaceAllFunc" =>
    /\ ~api.panic
    /\ Len(api.args) = Len(FullSearch)
    /\ \A i \in 1..Len(FullSearch) :
         api.args[i] = Sl(inp.b, FullSearch[i][1], FullSearch[i][2])

\* ------------------------------------------------------------------ C17
\* res[1] ++ sep[1] ++ res[2] ++ ... ++ sep[k-1] ++ res[k]: the substrings
\* with the bytes of the first k - 1 records of the full search between them
RECURSIVE Interleaved(_, _, _)
Interleaved(res, recs, i) ==
  IF i > Len(res) THEN <<>>
  ELSE IF i = Len(res) THEN res[i]
  ELSE res[i] \o Sl(inp.b, recs[i][1], recs[i][2]) \o Interleaved(res, recs, i + 1)

\* how many substrings a split at the first u records of the full search
\* has: one more than separators; the substring behind an empty separator at
\* the very end of the subject is not there, and the empty subject of the
\* empty pattern has no substring
SplitCount(u) ==
  IF Len(inp.b) = 0 /\ inp.exprEmpty THEN 0
  ELSE IF u > 0 /\ FullSearch[u] = <<Len(inp.b), Len(inp.b)>> THEN u
  ELSE u + 1

ClaimedSubstring(k) ==
  Sl(inp.b, api.ov[(2 * k) + 3],
     IF k = api.top - 2 THEN Len(inp.b) ELSE api.ov[(2 * k) + 4])

\* C18: for a callout with CaptureTop >= 1 the bridge builds Substrings
\* with CaptureTop - 1 entries (none when CaptureTop is 1), calls the
\* registered function once and returns the code it returned.
C18_BridgeBuildsSubstrings ==
  api.op = "Callout" =>
    /\ ~api.panic
    /\ api.calls = 1
    /\ api.ret = api.rc
    /\ Len(api.strs) = api.top - 1
    /\ \A k \in 0..(api.top - 2) : api.strs[k + 1] = ClaimedSubstring(k)

\* ------------------------------------------------------------ C19, C20
\* every path of the tree below p, p first, the entries in name order
RECURSIVE PreOrder(_, _, _)
PreOrder(k, p, i) ==
  IF i = 0 THEN <<p>> \o PreOrder(k, p, 1)
  ELSE IF i > Len(FsNames) \/ p \o <<FsNames[i]>> \notin FsPaths THEN <<>>
  ELSE (IF k[p \o <<FsNames[i]>>] # "none"
          THEN PreOrder(k, p \o <<FsNames[i]>>, 0) ELSE <<>>)
         \o PreOrder(k, p, i + 1)

\* the candidates of the call, in traversal order
Candidates ==
  IF fsys.shape = "rec" THEN PreOrder(fsys.kind, <<>>, 0)
  ELSE ReadDir(fsys.kind, <<>>)

RECURSIVE Matching(_)
Matching(ps) ==
  IF ps = <<>> THEN <<>>
  ELSE (IF MatchString(Head(ps)) THEN <<Head(ps)>> ELSE <<>>) \o Matching(Tail(ps))

\* Glob takes the traversal: the glob has metacharacters, names no existing
\* entry, and its base directory exists
Traverses == fsys.op = "glob" /\ fsys.shape \in {"flat", "rec"}
               /\ IsDir(fsys.kind[<<>>])

\* C19: when Glob returns matches, they are the candidates the compiled glob
\* matches, in traversal order: every path of the tree below the base
\* directory for a glob with **, the entries of the base directory otherwise.
C19_MatchesAreCandidates ==
  (Traverses /\ walk.op = "done" /\ walk.err = "none") =>
    walk.matches = Matching(Candidates)

\* C20: when a directory cannot be read, the base directory in flat mode or
\* any directory below it in recursive mode, Glob returns the error.
C20_TraversalErrorFails ==
  (Traverses /\ walk.op = "done") =>
    ((\/ fsys.shape = "flat" /\ fsys.kind[<<>>] = "locked"
      \/ fsys.shape = "rec" /\ \E p \in FsPaths : fsys.kind[p] = "locked")
       => walk.err # "none")

\* ------------------------------------------------------------------ C21
\* the subject of TestSplit (pcre_test.go:102)
SplitSubject ==
  <<"a", "b", "a", "a", "b", "a", "c", "c", "a", "d", "a", "a", "a", "e">>

\* where the longest run of "a" that starts at position p of s ends
RECURSIVE RunOfA(_, _)
RunOfA(s, p) == IF p < Len(s) /\ s[p + 1] = "a" THEN RunOfA(s, p + 1) ELSE p

\* what the pattern a* does on subject s: at every position it matches the
\* longest run of "a", which may be empty
AStarTable(s) == [p \in 0..Len(s) |-> MatchAt(RunOfA(s, p))]

\* the example of the claim: the records of a* over the subject of
\* TestSplit, with the empty record [7,7], and what Split makes of them
SplitExample ==
  /\ RunAlone(AStarTable(SplitSubject), TRUE) =
       Returned(<< <<0, 1>>, <<2, 4>>, <<5, 6>>, <<7, 7>>, <<8, 9>>, <<10, 13>> >>, 0)
  /\ SplitResult(SplitSubject, AStarTable(SplitSubject), FALSE, 5) =
       [panic |-> FALSE, nil |-> FALSE,
        res |-> << <<>>, <<"b">>, <<"b">>, <<"c">>,
                   <<"c", "a", "d", "a", "a", "a", "e">> >>]

\* C21: when a match has been accepted and an attempt returns an empty span
\* that does not start at the end of the last accepted match, the empty
\* match is appended to the output and the cursor is set to end + 1; a* over
\* "abaabaccadaaae" emits the empty record [7,7], and Split with at most 5
\* parts yields "", "b", "b", "c", "cadaaae".
C21_DetachedEmptyEmitted ==
  [][/\ \A g \in Procs :
          (DecidesEmpty(g) /\ Len(out[g]) > 0
             /\ md[g].ovec[1] # out[g][Len(out[g])][2])
          => /\ out'[g] = Append(out[g], md[g].ovec)
             /\ offset'[g] = md[g].ovec[2] + 1
             /\ pc'[g] = "loop"
     /\ SplitExample]_vars

\* C21 witness: the loop has just appended an empty match that starts after
\* the end of the non-empty record before it, and the cursor is one past it.
C21_Witness ==
  \E g \in Procs :
    /\ pc[g] = "loop"
    /\ md[g].ret > 0
    /\ md[g].ovec[1] = md[g].ovec[2]
    /\ Len(out[g]) >= 2
    /\ out[g][Len(out[g])] = md[g].ovec
    /\ out[g][Len(out[g]) - 1][1] < out[g][Len(out[g]) - 1][2]
    /\ out[g][Len(out[g]) - 1][2] < md[g].ovec[1]
    /\ offset[g] = md[g].ovec[2] + 1

\* ------------------------------------------------------------------ C22
\* goroutine g finishes a loop iteration and goes back to the loop test
Iterates(g) == pc[g] = "copy" /\ pc'[g] = "loop"

\* C22: every call of match terminates.  The cursor strictly increases on
\* every loop iteration (to end after an accepted non-empty match, to end + 1
\* after an empty one), the loop makes at most len(subject) attempts, the
\* handle's mutex is held only inside a call and is free after every exit
\* (no match, execution error, success, panic at the match data), and a call
\* that has started returns.
C22_MatchTerminates ==
  /\ [][\A g \in Procs :
          Iterates(g) =>
            /\ offset'[g] > offset[g]
            /\ offset'[g] = IF md[g].ovec[1] = md[g].ovec[2]
                              THEN md[g].ovec[2] + 1 ELSE md[g].ovec[2]]_vars
  /\ [](/\ \A g \in Procs :
            /\ Len(attempts[g]) <= SLen(subj[g])
            /\ (mtx = g) <=> (g \in InMatch)
        /\ (\A g \in Procs : pc[g] = "idle") => mtx = "free")
  /\ \A g \in Procs : (pc[g] # "idle") ~> (pc[g] = "idle")

\* C22 witness: a search for all matches has returned after one attempt at
\* every byte of a subject of two or more bytes, and the mutex is free.
C22_Witness ==
  \E g \in Procs :
    /\ pc[g] = "idle"
    /\ multi[g] /\ ret[g][TRUE].set
    /\ SLen(subj[g]) >= 2
    /\ Len(attempts[g]) = SLen(subj[g])
    /\ mtx = "free"

\* ------------------------------------------------------------------ C23
\* C23: ReplaceAll, ReplaceAllFunc and ReplaceAllLiteral leave the bytes of
\* the caller's src buffer as they were and return a buffer that shares no
\* storage with src, whatever the replacement is (a callback result that is
\* a slice of the callback's argument too) and also when nothing matches.
C23_SrcUntouchedResultPrivate ==
  (api.op \in ReplaceOps /\ ~api.panic) =>
    /\ api.srcAfter = inp.b
    /\ ~api.shares

====
